---- MODULE Spec2Model ----
(***************************************************************************)
(* A model of the sponsor-segment classifier of                            *)
(* src/backend/sponsor_classifier.py (class SponsorClassifier).            *)
(*                                                                         *)
(* Representation.                                                         *)
(*  - A text is the sequence of its words; the Python string is the words  *)
(*    joined by single spaces, so " ".join(...) of texts is concatenation  *)
(*    of word sequences.  `phrase in text` (a character-level substring    *)
(*    test) is SubstringIn below: it is decided word by word with the      *)
(*    infix / suffix / prefix relations between the words of the model's   *)
(*    vocabulary.                                                          *)
(*  - Times are whole seconds.                                             *)
(*  - A probability or threshold p is the integer 300 * p, so that k/3,    *)
(*    0.85, 0.5, 0.8 * threshold and 1.2 * p are exact.                    *)
(***************************************************************************)
EXTENDS Integers, Sequences, FiniteSets, TLC

VARIABLES
    transcript,          \* argument of classify_segments
    threshold,           \* argument of classify_segments (units of 1/300)
    use_deepseek,        \* self.use_deepseek, set by __init__
    deepseek_api_key,    \* self.deepseek_api_key, set by __init__
    oracle,              \* what the DeepSeek request of this call will answer
    pc,                  \* position inside classify_segments
    processed_segments,  \* windows (text, start, end) of _preprocess_transcript
    sorted_probs,        \* scored windows sorted by start
    sponsor_segments,    \* candidate intervals, later the intervals being refined
    merged_segments,     \* after the proximity merge
    final_segments,      \* after the boundary extension
    result,              \* the list classify_segments returns
    raised,              \* an exception left classify_segments
    oracle_calls,        \* number of requests.post calls made by this call
    segment_results,     \* the list _deepseek_classification returned
    window_size,         \* argument of _preprocess_transcript
    overlap,             \* argument of _preprocess_transcript
    calls,               \* the locals of the calls that run concurrently
    request              \* the request the /sponsors endpoint is serving

vars == <<transcript, threshold, use_deepseek, deepseek_api_key, oracle, pc, processed_segments,
          sorted_probs, sponsor_segments, merged_segments, final_segments,
          result, raised, oracle_calls, segment_results, window_size, overlap,
          calls, request>>

Min(a, b) == IF a <= b THEN a ELSE b
Max(a, b) == IF a >= b THEN a ELSE b

\* 1.0 in probability units
One == 3 * 100

(***************************************************************************)
(* Text: str.lower, `in`, " ".join                                         *)
(***************************************************************************)

\* str.lower() on a word of the vocabulary
Lower(w) == IF w = "Sponsor" THEN "sponsor" ELSE w

\* text.lower()
LowerText(text) == [i \in 1..Len(text) |-> Lower(text[i])]

\* p occurs inside the single word w
Infix(p, w) == p = w \/ <<p, w>> \in {<<"sponsor", "sponsored">>}

\* w ends with p
Suffix(p, w) == p = w

\* w starts with p
Prefix(p, w) == p = w \/ <<p, w>> \in {<<"sponsor", "sponsored">>}

\* Python `phrase in text` for a phrase and a text of single-space separated words
SubstringIn(phrase, text) ==
    LET k == Len(phrase) IN
    \E j \in 1..(Len(text) - k + 1) :
        IF k = 1
        THEN Infix(phrase[1], text[j])
        ELSE /\ Suffix(phrase[1], text[j])
             /\ Prefix(phrase[k], text[j + k - 1])
             /\ \A i \in 2..(k - 1) : text[j + i - 1] = phrase[i]

\* any(phrase in text for phrase in phrases)
AnyIn(phrases, text) == \E i \in 1..Len(phrases) : SubstringIn(phrases[i], text)

\* self.sponsor_keywords
sponsor_keywords == <<
    <<"sponsor">>, <<"sponsored">>, <<"sponsorship">>, <<"promotion">>,
    <<"promo", "code">>, <<"discount">>, <<"offer">>, <<"check", "out">>,
    <<"link", "in", "description">>, <<"link", "below">>, <<"use", "code">>,
    <<"coupon">>, <<"deal">>, <<"limited", "time">>, <<"special", "offer">>,
    <<"today's", "video", "is", "brought", "to", "you", "by">>,
    <<"thanks", "to">>, <<"brought", "to", "you", "by">>,
    <<"take", "a", "quick", "break">>, <<"like", "to", "thank">>,
    <<"acknowledge", "our", "sponsor">>, <<"back", "to">>, <<"moving", "on">>,
    <<"let's", "continue">>, <<"get", "back", "to">>,
    <<"squarespace">>, <<"nordvpn">>, <<"audible">>, <<"skillshare">>,
    <<"raid", "shadow", "legends">>, <<"brilliant">>, <<"curiositystream">>,
    <<"dashlane">>, <<"expressvpn">>, <<"manscaped">>,
    <<"our", "place">>, <<"element">>, <<"ag1">>, <<"eight", "sleep">>,
    <<"function", "health">>, <<"athletic", "greens">>, <<"mattress">>,
    <<"sleep">>, <<"supplements">>, <<"health">>, <<"hormone">>,
    <<"testosterone">>, <<"blood", "test">>, <<"pan">>, <<"kitchenware">>,
    <<"air", "filter">>, <<"air", "purifier">>, <<"air", "quality">>,
    <<"hydration">> >>

\* transition_keywords of _preprocess_transcript
transition_keywords == <<
    <<"sponsor">>, <<"break">>, <<"thank">>, <<"brought", "to", "you", "by">>,
    <<"speaking", "of">>, <<"back", "to">>, <<"moving", "on">>, <<"continue">>,
    <<"let's", "talk">> >>

\* start_phrases of classify_segments
start_phrases == <<
    <<"take", "a", "quick", "break">>, <<"break", "to">>, <<"like", "to", "thank">>,
    <<"thanks", "to", "our", "sponsor">>, <<"brought", "to", "you", "by">>,
    <<"sponsored", "by">>, <<"this", "episode", "is", "sponsored">>,
    <<"speaking", "of">>, <<"made", "possible", "by">>,
    <<"acknowledge", "our", "sponsor">> >>

\* end_phrases of classify_segments
end_phrases == <<
    <<"back", "to">>, <<"moving", "on">>, <<"let's", "continue">>, <<"now", "let's">>,
    <<"now", "back", "to">>, <<"let's", "get", "back", "to">>,
    <<"now", "that", "we've">>, <<"anyway">>, <<"with", "that", "said">> >>

(***************************************************************************)
(* _preprocess_transcript                                                  *)
(***************************************************************************)

\* default window_size and overlap of _preprocess_transcript
DefaultWindowSize == 8
DefaultOverlap == 4

RECURSIVE JoinText(_, _, _)
\* " ".join(segment["text"] for segment in transcript[a..b]), 1-based inclusive
JoinText(tr, a, b) == IF a > b THEN <<>> ELSE tr[a].text \o JoinText(tr, a + 1, b)

\* the window (text, start_time, end_time) over entries a..b (1-based inclusive)
MakeWindow(tr, a, b) ==
    [text |-> JoinText(tr, a, b),
     start |-> tr[a].start,
     end |-> tr[b].start + tr[b].duration]

\* window[0] of line 79 raises IndexError when the first window is empty: the
\* range of line 72 always yields i = 0 once window_size is 0, which the clamp
\* of lines 64-66 makes of every window_size for an empty transcript
PreprocessRaises(tr, wsize) == Min(Len(tr), wsize) = 0

\* mutant: without the clamp of lines 64-66 a transcript shorter than
\* window_size gets no sliding window
PreprocessWithoutClamp(tr, wsize, ovlap) ==
    LET n == Len(tr)
        step_size == Max(1, wsize - ovlap)
        slides == IF n < wsize THEN 0 ELSE (n - wsize) \div step_size + 1
        sliding == [k \in 1..slides |->
                      MakeWindow(tr, (k - 1) * step_size + 1, (k - 1) * step_size + wsize)]
        tail == IF n > wsize /\ (n - wsize) % step_size # 0
                THEN <<MakeWindow(tr, n - wsize + 1, n)>>
                ELSE <<>>
        start_idx(i) == Max(0, i - wsize \div 2)
        end_idx(i) == Min(n, i + wsize \div 2 + 1)
        focused(i) == /\ AnyIn(transition_keywords, LowerText(tr[i + 1].text))
                      /\ end_idx(i) - start_idx(i) > 2
        hits == SelectSeq([k \in 1..n |-> k - 1], focused)
        centered == [k \in 1..Len(hits) |->
                       MakeWindow(tr, start_idx(hits[k]) + 1, end_idx(hits[k]))]
    IN sliding \o tail \o centered

\* mutant: no tail window is appended after the slides
PreprocessWithoutTail(tr, wsize, ovlap) ==
    LET n == Len(tr)
        ws == IF n < wsize THEN n ELSE wsize
        ov == IF n < wsize THEN 0 ELSE ovlap
        step_size == Max(1, ws - ov)
        slides == (n - ws) \div step_size + 1
        sliding == [k \in 1..slides |->
                      MakeWindow(tr, (k - 1) * step_size + 1, (k - 1) * step_size + ws)]
        tail == <<>>
        \* 0-based i as in the code
        start_idx(i) == Max(0, i - ws \div 2)
        end_idx(i) == Min(n, i + ws \div 2 + 1)
        focused(i) == /\ AnyIn(transition_keywords, LowerText(tr[i + 1].text))
                      /\ end_idx(i) - start_idx(i) > 2
        hits == SelectSeq([k \in 1..n |-> k - 1], focused)
        centered == [k \in 1..Len(hits) |->
                       MakeWindow(tr, start_idx(hits[k]) + 1, end_idx(hits[k]))]
    IN sliding \o tail \o centered

\* mutant: a centered window is emitted whatever the number of its entries
PreprocessCenteredAlways(tr, wsize, ovlap) ==
    LET n == Len(tr)
        ws == IF n < wsize THEN n ELSE wsize
        ov == IF n < wsize THEN 0 ELSE ovlap
        step_size == Max(1, ws - ov)
        slides == (n - ws) \div step_size + 1
        sliding == [k \in 1..slides |->
                      MakeWindow(tr, (k - 1) * step_size + 1, (k - 1) * step_size + ws)]
        tail == IF n > ws /\ (n - ws) % step_size # 0
                THEN <<MakeWindow(tr, n - ws + 1, n)>>
                ELSE <<>>
        \* 0-based i as in the code
        start_idx(i) == Max(0, i - ws \div 2)
        end_idx(i) == Min(n, i + ws \div 2 + 1)
        focused(i) == AnyIn(transition_keywords, LowerText(tr[i + 1].text))
        hits == SelectSeq([k \in 1..n |-> k - 1], focused)
        centered == [k \in 1..Len(hits) |->
                       MakeWindow(tr, start_idx(hits[k]) + 1, end_idx(hits[k]))]
    IN sliding \o tail \o centered

\* the sliding windows, the tail window and the centered windows, in that order
\* (for a call that does not raise)
PreprocessTranscript(tr, wsize, ovlap) ==
    LET n == Len(tr)
        ws == IF n < wsize THEN n ELSE wsize
        ov == IF n < wsize THEN 0 ELSE ovlap
        step_size == Max(1, ws - ov)
        slides == (n - ws) \div step_size + 1
        sliding == [k \in 1..slides |->
                      MakeWindow(tr, (k - 1) * step_size + 1, (k - 1) * step_size + ws)]
        tail == IF n > ws /\ (n - ws) % step_size # 0
                THEN <<MakeWindow(tr, n - ws + 1, n)>>
                ELSE <<>>
        \* 0-based i as in the code
        start_idx(i) == Max(0, i - ws \div 2)
        end_idx(i) == Min(n, i + ws \div 2 + 1)
        focused(i) == /\ AnyIn(transition_keywords, LowerText(tr[i + 1].text))
                      /\ end_idx(i) - start_idx(i) > 2
        hits == SelectSeq([k \in 1..n |-> k - 1], focused)
        centered == [k \in 1..Len(hits) |->
                       MakeWindow(tr, start_idx(hits[k]) + 1, end_idx(hits[k]))]
    IN sliding \o tail \o centered

(***************************************************************************)
(* _heuristic_classification                                               *)
(***************************************************************************)

\* keyword_count
KeywordCount(text) ==
    Cardinality({i \in 1..Len(sponsor_keywords) :
                    SubstringIn(sponsor_keywords[i], LowerText(text))})

\* mutant: a transition phrase counts as one more keyword
HeuristicCountingTransitions(text) ==
    Min(One, 100 * (KeywordCount(text)
                    + (IF AnyIn(start_phrases \o end_phrases, LowerText(text)) THEN 1 ELSE 0)))

\* mutant: keyword_count / 3 without the cap at 1.0
HeuristicUncapped(text) == 100 * KeywordCount(text)

\* min(1.0, keyword_count / 3)
HeuristicClassification(text) == Min(One, 100 * KeywordCount(text))

\* [(i, start, end, text, heuristic(text)) for i, (text, start, end) in enumerate(windows)]
HeuristicSegments(windows) ==
    [i \in 1..Len(windows) |->
        [idx |-> i - 1, start |-> windows[i].start, end |-> windows[i].end,
         text |-> windows[i].text, prob |-> HeuristicClassification(windows[i].text)]]

(***************************************************************************)
(* _deepseek_classification                                                *)
(*                                                                         *)
(* The answer of the oracle is [kind, segments].  kind says how far the    *)
(* request gets; for kind "segments" the content parsed to a JSON list of  *)
(* objects, given in `segments`.  A JSON value of an object is [t, v]:     *)
(* t = "num" with the number v, t = "str" for a string, t = "absent" for   *)
(* a missing key.                                                          *)
(***************************************************************************)

Num(n) == [t |-> "num", v |-> n]
Absent == [t |-> "absent", v |-> 0]
Str == [t |-> "str", v |-> 0]

\* segment.get(key, 0)
Get(jv) == IF jv.t = "absent" THEN Num(0) ELSE jv

\* answers whose handling raises inside the outer try block (lines 198-249)
FailureKinds ==
    {"network_error",         \* requests.post raises
     "http_error",            \* response.raise_for_status() raises
     "body_not_json",         \* response.json() raises
     "content_not_json",      \* json.loads raises JSONDecodeError
     "not_iterable",          \* content is a JSON number or null: the for raises
     "elements_not_objects"}  \* content is a list of non-objects: .get raises

\* the server accepts the request and never answers; requests.post(url,
\* headers=..., json=...) of line 215 passes no timeout and waits without limit
Unanswered == {"no_answer"}

\* `is_transition and probability > 0.5` raises TypeError on a string probability
BoostRaises(seg) == seg.is_transition /\ Get(seg.probability).t = "str"

\* mutant: the boost also applies at a probability of exactly 0.5
BoostedFromHalf(seg) ==
    LET p == Get(seg.probability) IN
    IF seg.is_transition /\ p.v >= 150
    THEN Num(Min(One, (p.v * 12) \div 10))
    ELSE p

\* min(1.0, probability * 1.2) when is_transition and probability > 0.5
Boosted(seg) ==
    LET p == Get(seg.probability) IN
    IF seg.is_transition /\ p.v > 150
    THEN Num(Min(One, (p.v * 12) \div 10))
    ELSE p

\* the loop of lines 235-247 over a list of objects
ParsedSegments(segments) ==
    [i \in 1..Len(segments) |->
        [idx |-> 0,
         start |-> Get(segments[i].start_time).v,
         end |-> Get(segments[i].end_time).v,
         text |-> segments[i].text,
         prob |-> Boosted(segments[i])]]

\* heuristic list with probabilities as JSON numbers
HeuristicFallback(windows) ==
    LET h == HeuristicSegments(windows) IN
    [i \in 1..Len(h) |-> [h[i] EXCEPT !.prob = Num(h[i].prob)]]

\* mutant: the handler of a failed request returns no segments instead of the
\* heuristic list
DeepseekWithoutFallback(windows, enabled, orc) ==
    IF ~enabled THEN HeuristicFallback(windows)
    ELSE IF orc.kind \in FailureKinds THEN <<>>
    ELSE IF orc.kind = "empty_object" THEN <<>>
    ELSE IF \E i \in 1..Len(orc.segments) : BoostRaises(orc.segments[i])
         THEN HeuristicFallback(windows)
    ELSE ParsedSegments(orc.segments)

\* mutant: when the loop of lines 235-247 raises at an object, the handler keeps
\* the entries parsed before it and adds the heuristic list
DeepseekKeepingParsed(windows, enabled, orc) ==
    IF ~enabled THEN HeuristicFallback(windows)
    ELSE IF orc.kind \in FailureKinds THEN HeuristicFallback(windows)
    ELSE IF orc.kind = "empty_object" THEN <<>>
    ELSE IF \E i \in 1..Len(orc.segments) : BoostRaises(orc.segments[i])
         THEN LET k == CHOOSE i \in 1..Len(orc.segments) :
                          /\ BoostRaises(orc.segments[i])
                          /\ \A j \in 1..(i - 1) : ~BoostRaises(orc.segments[j])
              IN ParsedSegments(SubSeq(orc.segments, 1, k - 1)) \o HeuristicFallback(windows)
    ELSE ParsedSegments(orc.segments)

\* the list _deepseek_classification returns (probabilities still as parsed)
DeepseekClassification(windows, enabled, orc) ==
    IF ~enabled THEN HeuristicFallback(windows)
    ELSE IF orc.kind \in FailureKinds THEN HeuristicFallback(windows)
    ELSE IF orc.kind = "empty_object" THEN <<>>
    ELSE IF \E i \in 1..Len(orc.segments) : BoostRaises(orc.segments[i])
         THEN HeuristicFallback(windows)
    ELSE ParsedSegments(orc.segments)

\* `p > 0` of line 300 raises TypeError on a string probability, outside any try
LoggingRaises(results) ==
    \E i \in 1..Len(results) : results[i].prob.t = "str"

\* segment_probs once every probability is known to be a number
Numeric(results) ==
    [i \in 1..Len(results) |->
        [results[i] EXCEPT !.prob = results[i].prob.v]]

(***************************************************************************)
(* classify_segments: Segment Builder                                      *)
(***************************************************************************)

\* mutant: segment_probs is used in the order the scorer returned it
Unsorted(s) == s

RECURSIVE SortedByStart(_)
\* sorted(segment_probs, key=lambda x: x[1]) -- stable
SortedByStart(s) ==
    IF s = <<>> THEN <<>>
    ELSE LET prefix == SortedByStart(SubSeq(s, 1, Len(s) - 1))
             x == s[Len(s)]
             k == Cardinality({i \in 1..Len(prefix) : prefix[i].start <= x.start})
         IN SubSeq(prefix, 1, k) \o <<x>> \o SubSeq(prefix, k + 1, Len(prefix))

\* is_transition of lines 320-336
HasTransitionPhrase(text) == AnyIn(start_phrases \o end_phrases, LowerText(text))

\* last component of a transition marker
IsStart(text) == AnyIn(start_phrases, LowerText(text))

\* indices (into sorted_probs) of the transition markers, in order
TransitionMarkers(sp) ==
    SelectSeq([i \in 1..Len(sp) |-> i],
              LAMBDA i : HasTransitionPhrase(sp[i].text) \/ sp[i].prob > 255)

\* mutant: a marker that starts exactly 60 seconds after the end of the previous
\* marker stays in its group
GroupedAtMost(sp) ==
    LET tm == TransitionMarkers(sp)
        opens(j) == j = 1 \/ ~(sp[tm[j]].start - sp[tm[j - 1]].end <= 60)
        firsts == SelectSeq([j \in 1..Len(tm) |-> j], opens)
        last(g) == IF g = Len(firsts) THEN Len(tm) ELSE firsts[g + 1] - 1
    IN [g \in 1..Len(firsts) |-> SubSeq(tm, firsts[g], last(g))]

\* grouped_transitions: a marker opens a new group unless it starts less than
\* 60 seconds after the end of the previous marker
GroupedTransitions(sp) ==
    LET tm == TransitionMarkers(sp)
        opens(j) == j = 1 \/ ~(sp[tm[j]].start - sp[tm[j - 1]].end < 60)
        firsts == SelectSeq([j \in 1..Len(tm) |-> j], opens)
        last(g) == IF g = Len(firsts) THEN Len(tm) ELSE firsts[g + 1] - 1
    IN [g \in 1..Len(firsts) |-> SubSeq(tm, firsts[g], last(g))]

RECURSIVE ConsecutiveSegments(_, _, _, _, _)
\* the loop of lines 378-386 from position i with the run `run` so far
ConsecutiveSegments(sp, i, earliest_start, th, run) ==
    IF i > Len(sp) THEN run
    ELSE IF sp[i].start >= earliest_start
         THEN IF sp[i].prob >= th
              THEN ConsecutiveSegments(sp, i + 1, earliest_start, th, Append(run, sp[i]))
              ELSE IF run # <<>> /\ sp[i].start - run[Len(run)].end > 15
                   THEN run
                   ELSE ConsecutiveSegments(sp, i + 1, earliest_start, th, run)
         ELSE ConsecutiveSegments(sp, i + 1, earliest_start, th, run)

SeqMin(s) == CHOOSE x \in {s[i] : i \in 1..Len(s)} : \A i \in 1..Len(s) : x <= s[i]
SeqMax(s) == CHOOSE x \in {s[i] : i \in 1..Len(s)} : \A i \in 1..Len(s) : x >= s[i]

\* consecutive_segments of one group that has a start marker, lines 372-386
GroupRun(sp, group, th) ==
    ConsecutiveSegments(sp, 1, SeqMin([j \in 1..Len(group) |-> sp[group[j]].start]),
                        th, <<>>)

\* the candidate (a sequence of zero or one interval) of one group, lines 369-399
GroupCandidate(sp, group, th) ==
    IF \E j \in 1..Len(group) : IsStart(sp[group[j]].text)
    THEN LET earliest_start == SeqMin([j \in 1..Len(group) |-> sp[group[j]].start])
             run == ConsecutiveSegments(sp, 1, earliest_start, th, <<>>)
         IN IF run # <<>>
            THEN LET segment_start == SeqMin([j \in 1..Len(run) |-> run[j].start])
                     segment_end == SeqMax([j \in 1..Len(run) |-> run[j].end])
                 IN IF segment_end - segment_start >= 10
                    THEN <<[startTime |-> segment_start, endTime |-> segment_end]>>
                    ELSE <<>>
            ELSE <<>>
    ELSE <<>>

RECURSIVE ClusterCandidates(_, _, _, _)
\* the loop of line 367 over grouped_transitions from group g
ClusterCandidates(sp, groups, g, th) ==
    IF g > Len(groups) THEN <<>>
    ELSE GroupCandidate(sp, groups[g], th) \o ClusterCandidates(sp, groups, g + 1, th)

RECURSIVE ThresholdScan(_, _, _, _, _, _)
\* the loop of lines 409-429 from position i
ThresholdScan(sp, i, th, in_sponsor, current_start, acc) ==
    IF i > Len(sp)
    THEN IF in_sponsor
         THEN Append(acc, [startTime |-> current_start, endTime |-> sp[Len(sp)].end])
         ELSE acc
    ELSE IF sp[i].prob >= th /\ ~in_sponsor
         THEN ThresholdScan(sp, i + 1, th, TRUE, sp[i].start, acc)
         ELSE IF in_sponsor /\ (sp[i].prob < th
                                \/ (i > 1 /\ sp[i].start - sp[i - 1].end > 10))
              THEN ThresholdScan(sp, i + 1, th, FALSE, current_start,
                       Append(acc, [startTime |-> current_start, endTime |-> sp[i - 1].end]))
              ELSE ThresholdScan(sp, i + 1, th, in_sponsor, current_start, acc)

\* mutant: the threshold scan runs whatever the cluster step emitted
BuildWithScanAlways(sp, th) ==
    ClusterCandidates(sp, GroupedTransitions(sp), 1, th)
        \o ThresholdScan(sp, 1, th, FALSE, 0, <<>>)

\* sponsor_segments at line 431: cluster candidates, else the threshold scan
BuildCandidates(sp, th) ==
    LET clustered == ClusterCandidates(sp, GroupedTransitions(sp), 1, th) IN
    IF clustered # <<>> THEN clustered
    ELSE ThresholdScan(sp, 1, th, FALSE, 0, <<>>)

(***************************************************************************)
(* classify_segments: Merger / Refiner                                     *)
(***************************************************************************)

RECURSIVE MergeOverlapping(_, _, _)
\* mutant: the fold merges a candidate only when it starts no later than the
\* previous interval ends
MergeOverlapping(segs, i, acc) ==
    IF i > Len(segs) THEN acc
    ELSE LET prev == acc[Len(acc)]
             segment == segs[i]
         IN IF segment.startTime <= prev.endTime
            THEN MergeOverlapping(segs, i + 1,
                     [acc EXCEPT ![Len(acc)].endTime = Max(prev.endTime, segment.endTime)])
            ELSE MergeOverlapping(segs, i + 1, Append(acc, segment))

RECURSIVE MergeClose(_, _, _)
\* the fold of lines 434-443 from candidate i, with merged_segments = acc
MergeClose(segs, i, acc) ==
    IF i > Len(segs) THEN acc
    ELSE LET prev == acc[Len(acc)]
             segment == segs[i]
         IN IF segment.startTime <= prev.endTime + 15
            THEN MergeClose(segs, i + 1,
                     [acc EXCEPT ![Len(acc)].endTime = Max(prev.endTime, segment.endTime)])
            ELSE MergeClose(segs, i + 1, Append(acc, segment))

\* merged_segments for a non-empty candidate list
MergedSegments(segs) == MergeClose(segs, 2, <<segs[1]>>)

RECURSIVE ExtendWithoutGuard(_, _, _, _, _)
\* mutant: the forward branch lacks `end > segment_end` and takes the window's
\* end as it is
ExtendWithoutGuard(sp, i, th, segment_start, segment_end) ==
    IF i > Len(sp) THEN [startTime |-> segment_start, endTime |-> segment_end]
    ELSE IF sp[i].prob * 10 >= th * 8
         THEN IF sp[i].start < segment_start /\ segment_start - sp[i].end < 10
              THEN ExtendWithoutGuard(sp, i + 1, th, Min(segment_start, sp[i].start),
                                      segment_end)
              ELSE IF sp[i].start - segment_end < 10
                   THEN ExtendWithoutGuard(sp, i + 1, th, segment_start, sp[i].end)
                   ELSE ExtendWithoutGuard(sp, i + 1, th, segment_start, segment_end)
         ELSE ExtendWithoutGuard(sp, i + 1, th, segment_start, segment_end)

RECURSIVE ExtendSegment(_, _, _, _, _)
\* the loop of lines 454-462 from window i, for one merged segment
ExtendSegment(sp, i, th, segment_start, segment_end) ==
    IF i > Len(sp) THEN [startTime |-> segment_start, endTime |-> segment_end]
    ELSE IF sp[i].prob * 10 >= th * 8
         THEN IF sp[i].start < segment_start /\ segment_start - sp[i].end < 10
              THEN ExtendSegment(sp, i + 1, th, Min(segment_start, sp[i].start), segment_end)
              ELSE IF sp[i].end > segment_end /\ sp[i].start - segment_end < 10
                   THEN ExtendSegment(sp, i + 1, th, segment_start,
                                      Max(segment_end, sp[i].end))
                   ELSE ExtendSegment(sp, i + 1, th, segment_start, segment_end)
         ELSE ExtendSegment(sp, i + 1, th, segment_start, segment_end)

\* final_segments, lines 446-468
ExtendedSegments(merged, sp, th) ==
    [k \in 1..Len(merged) |->
        ExtendSegment(sp, 1, th, merged[k].startTime, merged[k].endTime)]

\* line 474
MinDuration(seg) == seg.endTime - seg.startTime >= 15
DurationFiltered(segs) == SelectSeq(segs, MinDuration)

(***************************************************************************)
(* _specific_sponsor_boundaries                                            *)
(***************************************************************************)

\* sponsor_block_1, sponsor_block_2, sponsor_block_3
sponsor_blocks == <<
    [start_phrases |-> << <<"take", "a", "quick", "break">>,
                          <<"acknowledge", "our", "sponsor">>, <<"our", "place">> >>,
     end_phrases |-> << <<"mental", "health">>, <<"speak", "more", "broadly">> >>,
     approx_start |-> 645, approx_end |-> 824],
    [start_phrases |-> << <<"like", "to", "take", "a", "quick", "break">>,
                          <<"thank", "our", "sponsor">>, <<"ag1">>,
                          <<"athletic", "greens">> >>,
     end_phrases |-> << <<"what", "are", "some", "of", "the", "things">>,
                        <<"ultra", "4">> >>,
     approx_start |-> 1865, approx_end |-> 2038],
    [start_phrases |-> << <<"take", "a", "quick", "break">>,
                          <<"acknowledge", "one", "of", "our">>,
                          <<"function", "health">>, <<"hormone">> >>,
     end_phrases |-> << <<"let's", "talk", "about", "diet">>, <<"nutrition", "for">> >>,
     approx_start |-> 3557, approx_end |-> 3668] >>

\* int(start // 60): the key of transcript_text
MinuteKey(t) == t \div 60

\* the window starts that the search of lines 541-546 (or 553-558) looks at:
\* windows of the three minute buckets from first_min whose text has a phrase
PhraseStarts(windows, first_min, phrases) ==
    {windows[i].start : i \in {j \in 1..Len(windows) :
        /\ MinuteKey(windows[j].start) \in first_min..(first_min + 2)
        /\ AnyIn(phrases, LowerText(windows[j].text))}}

SetMin(S) == CHOOSE x \in S : \A y \in S : x <= y

\* mutant: when neither phrase is found the segment takes the approximate
\* boundaries of the block
SnapToApproximate(segment, block, windows) ==
    LET starts == PhraseStarts(windows, MinuteKey(block.approx_start) - 1,
                               block.start_phrases)
        ends == PhraseStarts(windows, MinuteKey(block.approx_end) - 1,
                             block.end_phrases)
    IN [startTime |-> IF starts # {} THEN SetMin(starts) ELSE block.approx_start,
        endTime |-> IF ends # {} THEN SetMin(ends) ELSE block.approx_end]

\* lines 536-572 for one segment and its matching block
SnapToBlock(segment, block, windows) ==
    LET starts == PhraseStarts(windows, MinuteKey(block.approx_start) - 1,
                               block.start_phrases)
        ends == PhraseStarts(windows, MinuteKey(block.approx_end) - 1,
                             block.end_phrases)
    IN [startTime |-> IF starts # {} THEN SetMin(starts)
                      ELSE IF ends # {} THEN block.approx_start
                      ELSE segment.startTime,
        endTime |-> IF ends # {} THEN SetMin(ends)
                    ELSE IF starts # {} THEN block.approx_end
                    ELSE segment.endTime]

\* the condition of line 535
OverlapsBlock(segment, block) ==
    /\ segment.startTime <= block.approx_end + 30
    /\ segment.endTime >= block.approx_start - 30

\* refined_segments
SpecificSponsorBoundaries(segments, windows) ==
    [k \in 1..Len(segments) |->
        LET matching == {b \in 1..Len(sponsor_blocks) :
                            OverlapsBlock(segments[k], sponsor_blocks[b])}
        IN IF matching = {} THEN segments[k]
           ELSE SnapToBlock(segments[k], sponsor_blocks[SetMin(matching)], windows)]

(***************************************************************************)
(* classify_segments as a function, for the heuristic scorer               *)
(***************************************************************************)

\* lines 432-477 for the candidates segs
MergeAndRefine(segs, sp, th, windows) ==
    IF segs = <<>> THEN <<>>
    ELSE SpecificSponsorBoundaries(
             DurationFiltered(ExtendedSegments(MergedSegments(segs), sp, th)), windows)

\* classify_segments(tr, th) of a classifier built without an API key
HeuristicResult(tr, th) ==
    IF tr = <<>> THEN <<>>
    ELSE LET windows == PreprocessTranscript(tr, DefaultWindowSize, DefaultOverlap)
             sp == SortedByStart(HeuristicSegments(windows))
         IN MergeAndRefine(BuildCandidates(sp, th), sp, th, windows)

(***************************************************************************)
(* Inputs                                                                  *)
(***************************************************************************)

\* longest transcript; longest transcript that is tried at every base time and
\* in reverse order; most objects in an oracle answer
MaxLen == 16
MaxShort == 4
MaxOracleSegs == 3

Filler == <<"um">>

\* texts of the first and last entry of a transcript
Texts ==
    {Filler, <<"Sponsor">>, <<"sponsored", "by">>, <<"coupon", "deal">>,
     <<"our", "place">>, <<"ag1">>, <<"ultra", "4">>, <<"speaking", "of">>,
     <<"check">>, <<"out">>, <<"brought", "to", "you", "by">>}

\* texts of the first and last entry of the long transcripts
LongTexts ==
    {Filler, <<"Sponsor">>, <<"coupon", "deal">>, <<"speaking", "of">>,
     <<"brought", "to", "you", "by">>}

\* start of the first entry: away from every known sponsor block, before block 1,
\* inside the minute that both searches of block 2 look at
Bases == {0, 545, 1930}

\* thresholds 0.1, 0.5, 0.7
Thresholds == {30, 150, 210}

\* a pause of 20 seconds after the 5th or the 8th entry, or none
GapAfters == {0, 5, 8}

\* entries last 5 or 10 seconds
Durations == {5, 10}

\* n back-to-back entries of d seconds each, all filler but the first and last
Build(n, head, tail, base, gap_after, d) ==
    [i \in 1..n |->
        [text |-> IF i = 1 THEN head ELSE IF i = n THEN tail ELSE Filler,
         start |-> base + d * (i - 1) + (IF gap_after > 0 /\ i > gap_after THEN 20 ELSE 0),
         duration |-> d]]

Reverse(s) == [i \in 1..Len(s) |-> s[Len(s) + 1 - i]]

ShortTranscripts ==
    LET ordered == {Build(n, h, t, b, 0, d) : n \in 0..MaxShort, h \in Texts, t \in Texts,
                                              b \in Bases, d \in Durations}
    IN ordered \cup {Reverse(tr) : tr \in ordered}

LongTranscripts ==
    {Build(n, h, t, 0, g, 5) : n \in (MaxShort + 1)..MaxLen, h \in LongTexts,
                               t \in LongTexts, g \in GapAfters}

\* the transcript is ordered by start time
IsOrdered(tr) == \A i \in 1..(Len(tr) - 1) : tr[i].start <= tr[i + 1].start

\* the objects an oracle answer is drawn from
OraclePool == <<
    [start_time |-> Num(630), end_time |-> Num(700), probability |-> Num(300),
     text |-> Filler, is_transition |-> FALSE],
    [start_time |-> Num(560), end_time |-> Num(600), probability |-> Num(300),
     text |-> Filler, is_transition |-> FALSE],
    [start_time |-> Num(605), end_time |-> Num(606), probability |-> Num(0),
     text |-> Filler, is_transition |-> FALSE],
    [start_time |-> Num(0), end_time |-> Num(30), probability |-> Num(180),
     text |-> <<"sponsored", "by">>, is_transition |-> TRUE],
    [start_time |-> Num(0), end_time |-> Num(30), probability |-> Str,
     text |-> Filler, is_transition |-> FALSE],
    [start_time |-> Num(0), end_time |-> Num(30), probability |-> Str,
     text |-> Filler, is_transition |-> TRUE],
    [start_time |-> Absent, end_time |-> Absent, probability |-> Absent,
     text |-> <<>>, is_transition |-> FALSE],
    [start_time |-> Num(40), end_time |-> Num(70), probability |-> Num(450),
     text |-> Filler, is_transition |-> FALSE],
    [start_time |-> Num(130), end_time |-> Num(150), probability |-> Num(270),
     text |-> Filler, is_transition |-> FALSE],
    [start_time |-> Num(800), end_time |-> Num(830), probability |-> Num(300),
     text |-> <<"speaking", "of">>, is_transition |-> FALSE] >>

\* the objects of the pool at the indices S, in pool order
Pick(S) == SelectSeq(OraclePool, LAMBDA o : \E i \in S : OraclePool[i] = o)

NoOracle == [kind |-> "none", segments |-> <<>>]

\* answers that are not a list of objects
BrokenAnswers ==
    {[kind |-> k, segments |-> <<>>] :
        k \in FailureKinds \cup {"empty_object"} \cup Unanswered}

\* answers that are a list of at most MaxOracleSegs objects
ListAnswers ==
    {[kind |-> "segments", segments |-> Pick(S)] :
        S \in {T \in SUBSET (1..Len(OraclePool)) : Cardinality(T) <= MaxOracleSegs}}

\* transcripts tried with a broken answer, and with a list answer
BrokenAnswerTranscripts ==
    {Build(n, h, Filler, b, 0, 5) : n \in 0..MaxShort, h \in Texts, b \in Bases}
ListAnswerTranscripts ==
    {Build(n, h, Filler, b, 0, 5) : n \in {0, 3},
                                    h \in {<<"our", "place">>, <<"coupon", "deal">>},
                                    b \in {0, 545}}

(***************************************************************************)
(* The state machine: one call of classify_segments                        *)
(***************************************************************************)

\* no request is being served: classify_segments is called directly
NoRequest == [v |-> "", threshold |-> Absent, video |-> "none", entries |-> <<>>,
              classifier |-> TRUE]

\* os.getenv('DEEPSEEK_API_KEY') when the variable is not set
NoKey == "None"

\* line 20: self.use_deepseek = self.deepseek_api_key is not None
UseDeepseek(key) == key # NoKey

\* the key of a classifier built with the given strategy
EnvironmentKey(enabled) == IF enabled THEN "key" ELSE NoKey

Init ==
    /\ \/ /\ use_deepseek = FALSE
          /\ oracle = NoOracle
          /\ transcript \in ShortTranscripts \cup LongTranscripts
       \/ /\ use_deepseek = TRUE
          /\ oracle \in BrokenAnswers
          /\ transcript \in BrokenAnswerTranscripts
       \/ /\ use_deepseek = TRUE
          /\ oracle \in ListAnswers
          /\ transcript \in ListAnswerTranscripts
    /\ deepseek_api_key = EnvironmentKey(use_deepseek)
    /\ threshold \in Thresholds
    /\ pc = "call"
    /\ processed_segments = <<>>
    /\ sorted_probs = <<>>
    /\ sponsor_segments = <<>>
    /\ merged_segments = <<>>
    /\ final_segments = <<>>
    /\ result = <<>>
    /\ raised = FALSE
    /\ oracle_calls = 0
    /\ segment_results = <<>>
    /\ window_size = DefaultWindowSize
    /\ overlap = DefaultOverlap
    /\ calls = <<>>
    /\ request = NoRequest

\* what a call of classify_segments is given and never assigns
inputs == <<transcript, threshold, use_deepseek, deepseek_api_key, oracle,
            window_size, overlap, calls, request>>

\* mutant: without the guard of line 277 the empty transcript reaches
\* _preprocess_transcript, whose first window[0] raises IndexError
ReturnEmptyUnguarded ==
    /\ pc = "call"
    /\ transcript = <<>>
    /\ pc' = "done"
    /\ raised' = TRUE
    /\ UNCHANGED <<inputs, processed_segments, sorted_probs, sponsor_segments,
                   merged_segments, final_segments, result, oracle_calls,
                   segment_results>>

\* lines 277-279
ReturnEmpty ==
    /\ pc = "call"
    /\ transcript = <<>>
    /\ pc' = "done"
    /\ result' = <<>>
    /\ UNCHANGED <<inputs, processed_segments, sorted_probs, sponsor_segments,
                   merged_segments, final_segments, raised, oracle_calls,
                   segment_results>>

\* line 282
Preprocess ==
    /\ pc = "call"
    /\ transcript # <<>>
    /\ processed_segments' =
           PreprocessTranscript(transcript, window_size, overlap)
    /\ pc' = "score"
    /\ UNCHANGED <<inputs, sorted_probs, sponsor_segments, merged_segments,
                   final_segments, result, raised, oracle_calls,
                   segment_results>>

\* lines 292-312, heuristic branch
ScoreHeuristic ==
    /\ pc = "score"
    /\ ~use_deepseek
    /\ sorted_probs' = SortedByStart(HeuristicSegments(processed_segments))
    /\ pc' = "build"
    /\ UNCHANGED <<inputs, processed_segments, sponsor_segments, merged_segments,
                   final_segments, result, raised, oracle_calls,
                   segment_results>>

\* lines 285-286 and 144-215: the oracle branch sends its one request
SendRequest ==
    /\ pc = "score"
    /\ use_deepseek
    /\ oracle_calls' = oracle_calls + 1
    /\ pc' = "request"
    /\ UNCHANGED <<inputs, processed_segments, sorted_probs, sponsor_segments,
                   merged_segments, final_segments, result, raised, segment_results>>

\* lines 215-262: requests.post returns or raises, and _deepseek_classification
\* returns its list; requests.post is given no timeout, so an oracle that never
\* answers leaves the call inside requests.post
ReceiveAnswer ==
    /\ pc = "request"
    /\ oracle.kind \notin Unanswered
    /\ segment_results' = DeepseekClassification(processed_segments, use_deepseek, oracle)
    /\ pc' = "log"
    /\ UNCHANGED <<inputs, processed_segments, sorted_probs, sponsor_segments,
                   merged_segments, final_segments, result, raised, oracle_calls>>

\* lines 289-312, oracle branch: the logging and the sort
LogAndSort ==
    /\ pc = "log"
    /\ IF LoggingRaises(segment_results)
       THEN /\ raised' = TRUE
            /\ pc' = "done"
            /\ UNCHANGED sorted_probs
       ELSE /\ sorted_probs' = SortedByStart(Numeric(segment_results))
            /\ pc' = "build"
            /\ UNCHANGED raised
    /\ UNCHANGED <<inputs, processed_segments, sponsor_segments, merged_segments,
                   final_segments, result, oracle_calls, segment_results>>

\* lines 316-429
Build_ ==
    /\ pc = "build"
    /\ sponsor_segments' = BuildCandidates(sorted_probs, threshold)
    /\ pc' = "merge"
    /\ UNCHANGED <<inputs, processed_segments, sorted_probs, merged_segments,
                   final_segments, result, raised, oracle_calls,
                   segment_results>>

\* line 432 false, line 479
ReturnNone ==
    /\ pc = "merge"
    /\ sponsor_segments = <<>>
    /\ result' = <<>>
    /\ pc' = "done"
    /\ UNCHANGED <<inputs, processed_segments, sorted_probs, sponsor_segments,
                   merged_segments, final_segments, raised, oracle_calls,
                   segment_results>>

\* lines 434-443
Merge ==
    /\ pc = "merge"
    /\ sponsor_segments # <<>>
    /\ merged_segments' = MergedSegments(sponsor_segments)
    /\ pc' = "extend"
    /\ UNCHANGED <<inputs, processed_segments, sorted_probs, sponsor_segments,
                   final_segments, result, raised, oracle_calls,
                   segment_results>>

\* lines 446-471
Extend ==
    /\ pc = "extend"
    /\ final_segments' = ExtendedSegments(merged_segments, sorted_probs, threshold)
    /\ sponsor_segments' = final_segments'
    /\ pc' = "filter"
    /\ UNCHANGED <<inputs, processed_segments, sorted_probs, merged_segments,
                   result, raised, oracle_calls,
                   segment_results>>

\* line 474
Filter ==
    /\ pc = "filter"
    /\ sponsor_segments' = DurationFiltered(sponsor_segments)
    /\ pc' = "snap"
    /\ UNCHANGED <<inputs, processed_segments, sorted_probs, merged_segments,
                   final_segments, result, raised, oracle_calls,
                   segment_results>>

\* lines 477-479
Snap ==
    /\ pc = "snap"
    /\ sponsor_segments' = SpecificSponsorBoundaries(sponsor_segments, processed_segments)
    /\ result' = sponsor_segments'
    /\ pc' = "done"
    /\ UNCHANGED <<inputs, processed_segments, sorted_probs, merged_segments,
                   final_segments, raised, oracle_calls,
                   segment_results>>

Next ==
    \/ ReturnEmpty
    \/ Preprocess
    \/ ScoreHeuristic
    \/ SendRequest
    \/ ReceiveAnswer
    \/ LogAndSort
    \/ Build_
    \/ ReturnNone
    \/ Merge
    \/ Extend
    \/ Filter
    \/ Snap

Spec == Init /\ [][Next]_vars

\* classify_segments has returned a list
Returned == pc = "done" /\ ~raised

(***************************************************************************)
(* The state machine of one direct call of _preprocess_transcript, as made *)
(* by backend/main.py, analyze_sponsors.py, test_deepseek.py and           *)
(* test_classifier.py (the last one with its own window_size)              *)
(***************************************************************************)

\* most entries of a transcript, largest window_size and largest overlap tried
MaxEntries == 6
MaxWindow == 5
MaxOverlap == 5

\* texts of an entry: without and with a transition keyword
WindowTexts == {Filler, <<"Sponsor">>}

\* entries of 5 seconds that start every 7 seconds
WindowTranscripts ==
    UNION {{[i \in 1..n |-> [text |-> f[i], start |-> 7 * (i - 1), duration |-> 5]] :
               f \in [1..n -> WindowTexts]} : n \in 0..MaxEntries}

PreprocessInit ==
    /\ transcript \in WindowTranscripts
    /\ window_size \in 1..MaxWindow
    /\ overlap \in 0..MaxOverlap
    /\ pc = "window_call"
    /\ processed_segments = <<>>
    /\ raised = FALSE
    /\ threshold = 0
    /\ use_deepseek = FALSE
    /\ deepseek_api_key = NoKey
    /\ oracle = NoOracle
    /\ sorted_probs = <<>>
    /\ sponsor_segments = <<>>
    /\ merged_segments = <<>>
    /\ final_segments = <<>>
    /\ result = <<>>
    /\ oracle_calls = 0
    /\ segment_results = <<>>
    /\ calls = <<>>
    /\ request = NoRequest

\* lines 61-114: the call returns its windows
PreprocessReturns ==
    /\ pc = "window_call"
    /\ ~PreprocessRaises(transcript, window_size)
    /\ processed_segments' = PreprocessTranscript(transcript, window_size, overlap)
    /\ pc' = "window_done"
    /\ UNCHANGED <<inputs, sorted_probs, sponsor_segments, merged_segments,
                   final_segments, result, raised, oracle_calls, segment_results>>

\* lines 61-79: window[0] raises IndexError
PreprocessIndexError ==
    /\ pc = "window_call"
    /\ PreprocessRaises(transcript, window_size)
    /\ raised' = TRUE
    /\ pc' = "window_done"
    /\ UNCHANGED <<inputs, processed_segments, sorted_probs, sponsor_segments,
                   merged_segments, final_segments, result, oracle_calls,
                   segment_results>>

PreprocessNext == PreprocessReturns \/ PreprocessIndexError

PreprocessSpec == PreprocessInit /\ [][PreprocessNext]_vars

(***************************************************************************)
(* The state machine of the proximity merge (lines 432-443) run on a       *)
(* candidate list and then on its own output                               *)
(***************************************************************************)

\* most candidates in a list
MaxCandidates == 3

\* start and end times of the candidates
CandidateTimes == {0, 10, 25, 26, 40, 56, 57}

\* candidate lists in any order, as the cluster step can emit them
CandidateLists ==
    LET intervals == {c \in [startTime : CandidateTimes, endTime : CandidateTimes] :
                         c.endTime > c.startTime}
    IN UNION {[1..n -> intervals] : n \in 1..MaxCandidates}

MergeInit ==
    /\ sponsor_segments \in CandidateLists
    /\ pc = "merge_call"
    /\ merged_segments = <<>>
    /\ transcript = <<>>
    /\ threshold = 0
    /\ use_deepseek = FALSE
    /\ deepseek_api_key = NoKey
    /\ oracle = NoOracle
    /\ processed_segments = <<>>
    /\ sorted_probs = <<>>
    /\ final_segments = <<>>
    /\ result = <<>>
    /\ raised = FALSE
    /\ oracle_calls = 0
    /\ segment_results = <<>>
    /\ window_size = DefaultWindowSize
    /\ overlap = DefaultOverlap
    /\ calls = <<>>
    /\ request = NoRequest

\* lines 434-443 on the candidate list
MergeOnce ==
    /\ pc = "merge_call"
    /\ merged_segments' = MergedSegments(sponsor_segments)
    /\ pc' = "merge_done"
    /\ UNCHANGED <<inputs, processed_segments, sorted_probs, sponsor_segments,
                   final_segments, result, raised, oracle_calls, segment_results>>

\* lines 434-443 on the list the first pass returned; result holds what the
\* second pass returns
MergeAgain ==
    /\ pc = "merge_done"
    /\ result' = MergedSegments(merged_segments)
    /\ pc' = "merge_again"
    /\ UNCHANGED <<inputs, processed_segments, sorted_probs, sponsor_segments,
                   merged_segments, final_segments, raised, oracle_calls,
                   segment_results>>

MergeNext == MergeOnce \/ MergeAgain

MergeSpec == MergeInit /\ [][MergeNext]_vars

(***************************************************************************)
(* The state machine of several calls of classify_segments that run at the *)
(* same time on the one classifier of backend/main.py (line 35).  The      *)
(* classifier's fields are shared; everything else is local to a call.     *)
(***************************************************************************)

\* calls that run at the same time
MaxCalls == 2

\* what a caller passes: transcript, threshold, and the answer the oracle will
\* give to this call's request
CallArguments ==
    [transcript : {<<>>,
                   Build(3, <<"sponsored", "by">>, <<"coupon", "deal">>, 0, 0, 5),
                   Build(4, <<"Sponsor">>, Filler, 545, 0, 10)},
     threshold : {150},
     oracle : {[kind |-> "network_error", segments |-> <<>>],
               [kind |-> "no_answer", segments |-> <<>>],
               [kind |-> "segments", segments |-> Pick({1, 2})]}]

\* the locals of a call that has not started; `given` is the caller's own copy
\* of the transcript it passes
NewCall(args) ==
    [transcript |-> args.transcript, given |-> args.transcript,
     threshold |-> args.threshold, oracle |-> args.oracle, pc |-> "call",
     processed_segments |-> <<>>, sorted_probs |-> <<>>, result |-> <<>>,
     raised |-> FALSE]

ConcurrentInit ==
    /\ deepseek_api_key \in {NoKey, "key"}
    /\ use_deepseek = UseDeepseek(deepseek_api_key)
    /\ calls \in {[c \in 1..MaxCalls |-> NewCall(f[c])] :
                      f \in [1..MaxCalls -> CallArguments]}
    /\ pc = "concurrent"
    /\ transcript = <<>>
    /\ threshold = 0
    /\ oracle = NoOracle
    /\ processed_segments = <<>>
    /\ sorted_probs = <<>>
    /\ sponsor_segments = <<>>
    /\ merged_segments = <<>>
    /\ final_segments = <<>>
    /\ result = <<>>
    /\ raised = FALSE
    /\ oracle_calls = 0
    /\ segment_results = <<>>
    /\ window_size = DefaultWindowSize
    /\ overlap = DefaultOverlap
    /\ request = NoRequest

\* what no step of a call assigns: the classifier's fields and the variables
\* of the other state machines
shared == <<use_deepseek, deepseek_api_key, transcript, threshold, oracle, pc,
            processed_segments, sorted_probs, sponsor_segments, merged_segments,
            final_segments, result, raised, oracle_calls, segment_results,
            window_size, overlap, request>>

\* lines 277-282 of call c
CallEnter(c) ==
    /\ calls[c].pc = "call"
    /\ calls' = [calls EXCEPT ![c] =
          IF calls[c].transcript = <<>>
          THEN [@ EXCEPT !.pc = "done", !.result = <<>>]
          ELSE [@ EXCEPT !.pc = "score",
                         !.processed_segments =
                             PreprocessTranscript(calls[c].transcript,
                                                  DefaultWindowSize, DefaultOverlap)]]
    /\ UNCHANGED shared

\* lines 285-312 of call c: the test of self.use_deepseek, and the heuristic
\* branch
CallBranch(c) ==
    /\ calls[c].pc = "score"
    /\ calls' = [calls EXCEPT ![c] =
          IF use_deepseek
          THEN [@ EXCEPT !.pc = "request"]
          ELSE [@ EXCEPT !.pc = "build",
                         !.sorted_probs = SortedByStart(
                             HeuristicSegments(calls[c].processed_segments))]]
    /\ UNCHANGED shared

\* mutant: a failed request switches the classifier to the heuristic strategy
CallAnswerDisabling(c) ==
    /\ calls[c].pc = "request"
    /\ calls[c].oracle.kind \notin Unanswered
    /\ LET segment_probs == DeepseekClassification(calls[c].processed_segments,
                                                   use_deepseek, calls[c].oracle)
       IN calls' = [calls EXCEPT ![c] =
             IF LoggingRaises(segment_probs)
             THEN [@ EXCEPT !.pc = "done", !.raised = TRUE]
             ELSE [@ EXCEPT !.pc = "build",
                            !.sorted_probs = SortedByStart(Numeric(segment_probs))]]
    /\ use_deepseek' = (use_deepseek /\ calls[c].oracle.kind \notin FailureKinds)
    /\ UNCHANGED <<deepseek_api_key, transcript, threshold, oracle, pc,
                   processed_segments, sorted_probs, sponsor_segments,
                   merged_segments, final_segments, result, raised, oracle_calls,
                   segment_results, window_size, overlap, request>>

\* lines 144-262 and 289-312 of call c: _deepseek_classification tests
\* self.use_deepseek again, the request returns or raises, then the logging
\* and the sort
CallAnswer(c) ==
    /\ calls[c].pc = "request"
    /\ calls[c].oracle.kind \notin Unanswered
    /\ LET segment_probs == DeepseekClassification(calls[c].processed_segments,
                                                   use_deepseek, calls[c].oracle)
       IN calls' = [calls EXCEPT ![c] =
             IF LoggingRaises(segment_probs)
             THEN [@ EXCEPT !.pc = "done", !.raised = TRUE]
             ELSE [@ EXCEPT !.pc = "build",
                            !.sorted_probs = SortedByStart(Numeric(segment_probs))]]
    /\ UNCHANGED shared

\* lines 316-479 of call c
CallFinish(c) ==
    /\ calls[c].pc = "build"
    /\ calls' = [calls EXCEPT ![c] =
          [@ EXCEPT !.pc = "done",
                    !.result = MergeAndRefine(
                        BuildCandidates(calls[c].sorted_probs, calls[c].threshold),
                        calls[c].sorted_probs, calls[c].threshold,
                        calls[c].processed_segments)]]
    /\ UNCHANGED shared

ConcurrentNext ==
    \E c \in 1..MaxCalls : CallEnter(c) \/ CallBranch(c) \/ CallAnswer(c) \/ CallFinish(c)

ConcurrentSpec == ConcurrentInit /\ [][ConcurrentNext]_vars

\* what classify_segments(tr, th) does on a classifier with strategy `enabled`
\* and oracle answer orc when no other call runs: raises, or returns a list
AloneOutcome(tr, th, enabled, orc) ==
    IF tr = <<>> \/ ~enabled
    THEN [raised |-> FALSE, result |-> HeuristicResult(tr, th)]
    ELSE LET windows == PreprocessTranscript(tr, DefaultWindowSize, DefaultOverlap)
             segment_probs == DeepseekClassification(windows, enabled, orc)
             sp == SortedByStart(Numeric(segment_probs))
         IN IF LoggingRaises(segment_probs)
            THEN [raised |-> TRUE, result |-> <<>>]
            ELSE [raised |-> FALSE,
                  result |-> MergeAndRefine(BuildCandidates(sp, th), sp, th, windows)]

(***************************************************************************)
(* The state machine of _deepseek_classification on an answer that parsed  *)
(* to a list of objects (lines 231-249)                                    *)
(***************************************************************************)

\* most objects in a parsed answer
MaxParsed == 2

\* "probability" of an object: -0.4, 0, 0.5, just above 0.5, 0.6, 0.8, 0.85,
\* 1, 1.5, a string, or no such key
ParsedProbabilities ==
    {Num(0 - 120), Num(0), Num(150), Num(155), Num(180), Num(240), Num(255),
     Num(300), Num(450), Str, Absent}

\* the objects of a parsed answer; is_transition FALSE also stands for an
\* object without the key (line 241 reads it as False)
ParsedObjects ==
    [start_time : {Num(40)}, end_time : {Num(70)}, probability : ParsedProbabilities,
     text : {Filler}, is_transition : BOOLEAN]

ParsedAnswers ==
    {[kind |-> "segments", segments |-> segs] :
        segs \in UNION {[1..n -> ParsedObjects] : n \in 0..MaxParsed}}

ParseInit ==
    /\ oracle \in ParsedAnswers
    /\ transcript = Build(3, <<"coupon", "deal">>, Filler, 0, 0, 5)
    /\ processed_segments = PreprocessTranscript(transcript, DefaultWindowSize, DefaultOverlap)
    /\ deepseek_api_key = "key"
    /\ use_deepseek = UseDeepseek(deepseek_api_key)
    /\ pc = "parse_call"
    /\ segment_results = <<>>
    /\ threshold = 0
    /\ sorted_probs = <<>>
    /\ sponsor_segments = <<>>
    /\ merged_segments = <<>>
    /\ final_segments = <<>>
    /\ result = <<>>
    /\ raised = FALSE
    /\ oracle_calls = 0
    /\ window_size = DefaultWindowSize
    /\ overlap = DefaultOverlap
    /\ calls = <<>>
    /\ request = NoRequest

\* lines 144-262: the request is sent and answered, the answer is parsed
ParseAnswer ==
    /\ pc = "parse_call"
    /\ oracle_calls' = oracle_calls + 1
    /\ segment_results' = DeepseekClassification(processed_segments, use_deepseek, oracle)
    /\ pc' = "parse_done"
    /\ UNCHANGED <<inputs, processed_segments, sorted_probs, sponsor_segments,
                   merged_segments, final_segments, result, raised>>

ParseNext == ParseAnswer

ParseSpec == ParseInit /\ [][ParseNext]_vars

(***************************************************************************)
(* The state machine of one GET /sponsors request to backend/main.py       *)
(* (get_sponsors, lines 46-115), with the call of classify_segments it     *)
(* makes.  request.threshold is the query parameter: Absent, Str for a     *)
(* text float() rejects, Num(n), or one of the texts float() reads as nan, *)
(* inf and -inf.                                                           *)
(***************************************************************************)

NaN == [t |-> "nan", v |-> 0]
Infinity == [t |-> "inf", v |-> 0]
MinusInfinity == [t |-> "-inf", v |-> 0]

\* the default of lines 67 and 72, and the default the docstring of line 53
\* announces, in probability units (0.3 and 0.7)
BackendDefault == 90
DocumentedDefault == 210

\* max(0.0, min(1.0, x)) of line 69; min(1.0, nan) is 1.0 because nan < 1.0
\* is false
Clamped(x) ==
    IF x.t \in {"nan", "inf"} THEN One
    ELSE IF x.t = "-inf" THEN 0
    ELSE Max(0, Min(One, x.v))

\* lines 66-73: the threshold get_sponsors passes on
EndpointThreshold(arg) ==
    IF arg.t = "absent" THEN Clamped(Num(BackendDefault))
    ELSE IF arg.t = "str" THEN BackendDefault
    ELSE Clamped(arg)

\* the threshold parameters tried: none, "abc", -0.5, 0, 0.1, 0.5, 0.7, 1,
\* 1.5, "nan", "inf", "-inf"
ThresholdArguments ==
    {Absent, Str, Num(0 - 150), Num(0), Num(30), Num(150), Num(210), Num(One),
     Num(450), NaN, Infinity, MinusInfinity}

\* the requests tried: with and without a video id; YouTube has a transcript
\* for the video or none; the classifier was imported or not (lines 33-39)
Requests ==
    {[v |-> v, threshold |-> th, video |-> "transcript", entries |-> tr,
      classifier |-> c] :
        v \in {"", "abc"}, th \in ThresholdArguments, c \in BOOLEAN,
        tr \in {<<>>, Build(3, <<"sponsored", "by">>, <<"coupon", "deal">>, 0, 0, 5),
                Build(4, <<"Sponsor">>, Filler, 545, 0, 10)}}
    \cup
    {[v |-> "abc", threshold |-> th, video |-> "unavailable", entries |-> <<>>,
      classifier |-> TRUE] : th \in ThresholdArguments}

EndpointInit ==
    /\ request \in Requests
    /\ \/ /\ use_deepseek = FALSE
          /\ oracle = NoOracle
       \/ /\ use_deepseek = TRUE
          /\ oracle \in {[kind |-> "network_error", segments |-> <<>>],
                         [kind |-> "segments", segments |-> Pick({1, 2})],
                         [kind |-> "segments", segments |-> Pick({5})]}
    /\ deepseek_api_key = EnvironmentKey(use_deepseek)
    /\ pc = "endpoint"
    /\ transcript = <<>>
    /\ threshold = 0
    /\ processed_segments = <<>>
    /\ sorted_probs = <<>>
    /\ sponsor_segments = <<>>
    /\ merged_segments = <<>>
    /\ final_segments = <<>>
    /\ result = <<>>
    /\ raised = FALSE
    /\ oracle_calls = 0
    /\ segment_results = <<>>
    /\ window_size = DefaultWindowSize
    /\ overlap = DefaultOverlap
    /\ calls = <<>>

\* what the steps of get_sponsors outside classify_segments leave alone
endpoint_frame == <<use_deepseek, deepseek_api_key, oracle, window_size, overlap,
                    calls, request, processed_segments, sorted_probs,
                    sponsor_segments, merged_segments, final_segments, result,
                    oracle_calls, segment_results>>

\* lines 55-63: no video id, status 400
RejectNoVideo ==
    /\ pc = "endpoint"
    /\ request.v = ""
    /\ pc' = "rejected"
    /\ UNCHANGED <<endpoint_frame, transcript, threshold, raised>>

\* lines 65-73: the threshold parameter is read
ReadThreshold ==
    /\ pc = "endpoint"
    /\ request.v # ""
    /\ threshold' = EndpointThreshold(request.threshold)
    /\ pc' = "fetch"
    /\ UNCHANGED <<endpoint_frame, transcript, raised>>

\* lines 75-83: the classifier is there and YouTube returns the transcript
FetchTranscript ==
    /\ pc = "fetch"
    /\ request.classifier
    /\ request.video = "transcript"
    /\ transcript' = request.entries
    /\ pc' = "call"
    /\ UNCHANGED <<endpoint_frame, threshold, raised>>

\* lines 77-78, 82 and 107-114: no classifier, or get_transcript raises;
\* status 400
FetchFails ==
    /\ pc = "fetch"
    /\ ~request.classifier \/ request.video = "unavailable"
    /\ pc' = "failed"
    /\ UNCHANGED <<endpoint_frame, transcript, threshold, raised>>

\* lines 89-114: classify_segments has returned or raised, the response is
\* sent
Respond ==
    /\ pc = "done"
    /\ pc' = IF raised THEN "failed" ELSE "responded"
    /\ UNCHANGED <<endpoint_frame, transcript, threshold, raised>>

EndpointNext ==
    \/ RejectNoVideo
    \/ ReadThreshold
    \/ FetchTranscript
    \/ FetchFails
    \/ ReturnEmpty
    \/ Preprocess
    \/ ScoreHeuristic
    \/ SendRequest
    \/ ReceiveAnswer
    \/ LogAndSort
    \/ Build_
    \/ ReturnNone
    \/ Merge
    \/ Extend
    \/ Filter
    \/ Snap
    \/ Respond

EndpointSpec == EndpointInit /\ [][EndpointNext]_vars

(***************************************************************************)
(* Properties                                                              *)
(***************************************************************************)

Duration(seg) == seg.endTime - seg.startTime

\* C1: every interval classify_segments returns lasts at least 15 seconds,
\* also after the known-pattern boundary snap that follows the duration filter.
C1_MinDurationOfResult ==
    Returned => \A i \in 1..Len(result) : Duration(result[i]) >= 15

\* C2: of any two returned intervals, the one that starts later starts more than
\* 15 seconds after the other ends: no overlap, no gap of 15 seconds or less.
C2_ResultSeparated ==
    Returned =>
        \A i, j \in 1..Len(result) :
            (i # j /\ result[i].startTime <= result[j].startTime)
                => result[j].startTime > result[i].endTime + 15

\* the half-second points covered by a list of intervals
Covers(segs, k) == \E i \in 1..Len(segs) : 2 * segs[i].startTime <= k /\ k <= 2 * segs[i].endTime
CoveredBy(inner, outer) ==
    \A i \in 1..Len(inner) :
        \A k \in (2 * inner[i].startTime)..(2 * inner[i].endTime) : Covers(outer, k)

\* C3: with the heuristic scorer, every time point covered by the result at a
\* threshold is covered by the result at every lower threshold.
C3_ThresholdMonotone ==
    (Returned /\ ~use_deepseek) =>
        \A t1 \in Thresholds :
            t1 < threshold => CoveredBy(result, HeuristicResult(transcript, t1))

\* C4: a call whose oracle request fails with a network error returns the list a
\* classifier without API key returns for the same transcript and threshold.
C4_NetworkErrorAsDisabled ==
    (pc = "done" /\ use_deepseek /\ oracle.kind = "network_error") =>
        /\ ~raised
        /\ result = HeuristicResult(transcript, threshold)

C4_Witness ==
    /\ pc = "done" /\ use_deepseek /\ oracle.kind = "network_error"
    /\ oracle_calls = 1
    /\ result # <<>>

\* the content parsed, but is not a list of objects with numeric probability,
\* start_time and end_time
SchemaMismatch(orc) ==
    \/ orc.kind \in {"not_iterable", "empty_object", "elements_not_objects"}
    \/ /\ orc.kind = "segments"
       /\ \E i \in 1..Len(orc.segments) :
             \/ orc.segments[i].probability.t # "num"
             \/ orc.segments[i].start_time.t # "num"
             \/ orc.segments[i].end_time.t # "num"

OracleFailed(orc) == orc.kind \in FailureKinds \/ SchemaMismatch(orc)

\* C5: whatever way the oracle fails (network error, error status, content that
\* is not JSON, JSON that does not match the schema), classify_segments raises
\* nothing and returns the result of scoring every window heuristically.
C5_EveryFailureFallsBack ==
    (pc = "done" /\ use_deepseek /\ OracleFailed(oracle)) =>
        /\ ~raised
        /\ result = HeuristicResult(transcript, threshold)

\* C6: the result for a transcript given in any order is the result for the
\* same entries sorted by start time (stated for the heuristic scorer, whose
\* result is a function of the transcript and the threshold).
C6_OrderInsensitive ==
    (Returned /\ ~use_deepseek) =>
        result = HeuristicResult(SortedByStart(transcript), threshold)

\* C7: for a transcript ordered by start with positive durations, every returned
\* interval ends after it starts, also when the boundary snap rewrote it.
C7_EndAfterStart ==
    (Returned /\ IsOrdered(transcript)) =>
        \A i \in 1..Len(result) : result[i].endTime > result[i].startTime

\* C8: the returned list is in ascending order of startTime.
C8_ResultSorted ==
    Returned =>
        \A i \in 1..(Len(result) - 1) : result[i].startTime <= result[i + 1].startTime

\* no entry of the transcript contains a sponsor keyword
NoKeywordInEntries(tr) == \A i \in 1..Len(tr) : KeywordCount(tr[i].text) = 0

\* no window of the transcript contains a sponsor keyword
NoKeywordInWindows(tr) ==
    tr # <<>> =>
        LET windows == PreprocessTranscript(tr, DefaultWindowSize, DefaultOverlap) IN
        \A i \in 1..Len(windows) : KeywordCount(windows[i].text) = 0

\* C9 as stated: with the heuristic scorer and a threshold above 0, a transcript
\* none of whose entries contains a sponsor keyword yields the empty list.
C9_NoKeywordEntriesEmpty ==
    (Returned /\ ~use_deepseek /\ threshold > 0 /\ NoKeywordInEntries(transcript))
        => result = <<>>

\* C9 amended: with the heuristic scorer and a threshold above 0, a transcript
\* none of whose windows (entries joined by spaces) contains a sponsor keyword
\* yields the empty list, transition phrases or not.
C9_NoKeywordWindowsEmpty ==
    (Returned /\ ~use_deepseek /\ threshold > 0 /\ NoKeywordInWindows(transcript))
        => result = <<>>

C9_Witness ==
    /\ Returned /\ ~use_deepseek /\ threshold > 0
    /\ NoKeywordInWindows(transcript)
    /\ \E i \in 1..Len(sorted_probs) : HasTransitionPhrase(sorted_probs[i].text)
    /\ Len(transcript) > DefaultWindowSize

\* C10: for an empty transcript classify_segments returns the empty list, under
\* both strategies and every threshold, raising nothing and asking no oracle.
C10_EmptyTranscript ==
    (pc = "done" /\ transcript = <<>>) =>
        /\ result = <<>>
        /\ ~raised
        /\ oracle_calls = 0

C10_Witness == pc = "done" /\ transcript = <<>> /\ use_deepseek /\ result = <<>>

\* the one window over all entries of tr
WholeTranscript(tr) == MakeWindow(tr, 1, Len(tr))

\* the entry contains a transition keyword
HasTransitionKeyword(entry) == AnyIn(transition_keywords, LowerText(entry.text))

\* _preprocess_transcript was called with a non-empty transcript of fewer
\* entries than window_size
ShortCall ==
    pc = "window_done" /\ 0 < Len(transcript) /\ Len(transcript) < window_size

\* C11 as stated, for the non-empty transcripts: a transcript of fewer entries
\* than window_size yields exactly one window, the one over the whole
\* transcript, whether or not entries contain transition keywords.
C11_ShortTranscriptOneWindow ==
    ShortCall =>
        /\ ~raised
        /\ processed_segments = <<WholeTranscript(transcript)>>

\* C11 amended: a non-empty transcript of fewer entries than window_size yields
\* the window over the whole transcript first and as its only sliding window;
\* it yields no other window when no entry contains a transition keyword, and
\* at most one more window per entry that contains one.
C11_ShortTranscriptWholeFirst ==
    ShortCall =>
        /\ ~raised
        /\ processed_segments # <<>>
        /\ processed_segments[1] = WholeTranscript(transcript)
        /\ Len(processed_segments) <=
               1 + Cardinality({i \in 1..Len(transcript) :
                                   HasTransitionKeyword(transcript[i])})

C11_Witness ==
    /\ ShortCall
    /\ Len(processed_segments) > 1
    /\ processed_segments[2] # WholeTranscript(transcript)
    /\ \E i \in 1..Len(transcript) : ~HasTransitionKeyword(transcript[i])

\* C12: _preprocess_transcript of an empty transcript raises nothing and returns
\* the empty window list.
C12_EmptyTranscriptNoWindows ==
    (pc = "window_done" /\ transcript = <<>>) =>
        /\ ~raised
        /\ processed_segments = <<>>

KeywordSet == {sponsor_keywords[i] : i \in 1..Len(sponsor_keywords)}

\* the positions of text at which kw occurs, letter case ignored
Occurrences(kw, text) ==
    {j \in 1..Len(text) :
        /\ j + Len(kw) - 1 <= Len(text)
        /\ SubstringIn(LowerText(kw), LowerText(SubSeq(text, j, j + Len(kw) - 1)))}

\* k: the number of distinct keywords that occur in text
DistinctKeywordsIn(text) ==
    Cardinality({kw \in KeywordSet : Occurrences(kw, text) # {}})

\* C14: the heuristic score of a window text is min(1, k/3), k the number of
\* distinct keywords that occur in the text as a substring, letter case ignored
\* and repetitions not counted; it lies in [0, 1], and windows with the same
\* text get the same score wherever they stand in the list.
C14_HeuristicScore ==
    (pc = "build" /\ ~use_deepseek) =>
        /\ \A i \in 1..Len(sorted_probs) :
               /\ 3 * sorted_probs[i].prob =
                      Min(3 * One, One * DistinctKeywordsIn(sorted_probs[i].text))
               /\ 0 <= sorted_probs[i].prob /\ sorted_probs[i].prob <= One
        /\ \A i, j \in 1..Len(sorted_probs) :
               sorted_probs[i].text = sorted_probs[j].text
                   => sorted_probs[i].prob = sorted_probs[j].prob

\* a window in which "sponsor" occurs twice, once capitalised and once inside
\* "sponsored": two distinct keywords, score 2/3
C14_Witness ==
    /\ pc = "build" /\ ~use_deepseek
    /\ \E i \in 1..Len(sorted_probs) :
           /\ Cardinality(Occurrences(<<"sponsor">>, sorted_probs[i].text)) = 2
           /\ "Sponsor" \in {sorted_probs[i].text[j] : j \in 1..Len(sorted_probs[i].text)}
           /\ DistinctKeywordsIn(sorted_probs[i].text) = 2
           /\ sorted_probs[i].prob = 2 * 100

\* every entry of the list comes from the object at its place in the answer
EntirelyOracle(list, orc) ==
    /\ orc.kind \in {"segments", "empty_object"}
    /\ Len(list) = Len(orc.segments)
    /\ \A i \in 1..Len(list) :
           /\ list[i].start = Get(orc.segments[i].start_time).v
           /\ list[i].end = Get(orc.segments[i].end_time).v
           /\ list[i].text = orc.segments[i].text
           /\ list[i].prob \in {Get(orc.segments[i].probability),
                                 Boosted(orc.segments[i])}

\* entry i is window i with its heuristic score, one entry per window
EntirelyHeuristic(list, windows) ==
    /\ Len(list) = Len(windows)
    /\ \A i \in 1..Len(list) :
           /\ list[i].idx = i - 1
           /\ list[i].start = windows[i].start
           /\ list[i].end = windows[i].end
           /\ list[i].text = windows[i].text
           /\ list[i].prob = Num(Min(One, 100 * DistinctKeywordsIn(windows[i].text)))

\* C15: the list _deepseek_classification returns is built entirely from the
\* objects of the oracle's answer, or it is the heuristic list with one entry
\* per window; it is never part one and part the other.
C15_NeverMixed ==
    pc = "log" =>
        \/ EntirelyOracle(segment_results, oracle)
        \/ EntirelyHeuristic(segment_results, processed_segments)

\* the parsing failed at the second or a later object of the answer, and the
\* list returned is the heuristic one
C15_Witness ==
    /\ pc = "log"
    /\ oracle.kind = "segments"
    /\ Len(oracle.segments) >= 2
    /\ ~BoostRaises(oracle.segments[1])
    /\ \E i \in 2..Len(oracle.segments) : BoostRaises(oracle.segments[i])
    /\ EntirelyHeuristic(segment_results, processed_segments)
    /\ ~EntirelyOracle(segment_results, oracle)

\* C16: every call of classify_segments eventually returns. The request to the
\* oracle is the one step of a call that waits for something outside it, so the
\* call returns exactly when the request, once sent, can still return or raise:
\* also when the oracle never answers, and the call then returns the heuristic
\* result. No call asks the oracle twice.
C16_CallCompletes ==
    /\ pc = "request" => ENABLED ReceiveAnswer
    /\ oracle_calls <= 1
    /\ (pc = "done" /\ oracle.kind \in Unanswered) =>
           (~raised /\ result = HeuristicResult(transcript, threshold))

\* C17: calls that run at the same time on one classifier do not interfere:
\* the strategy flag stays what __init__ made it from the API key, whatever
\* calls ran and whatever their requests did; every call leaves the caller's
\* transcript as it was given; and every call that has ended has raised or
\* returned exactly what it does when it runs alone.
C17_CallsDoNotInterfere ==
    pc = "concurrent" =>
        /\ use_deepseek = UseDeepseek(deepseek_api_key)
        /\ \A c \in 1..MaxCalls :
               /\ calls[c].transcript = calls[c].given
               /\ calls[c].pc = "done" =>
                      LET alone == AloneOutcome(calls[c].given, calls[c].threshold,
                                                UseDeepseek(deepseek_api_key),
                                                calls[c].oracle)
                      IN /\ calls[c].raised = alone.raised
                         /\ calls[c].result = alone.result

\* a call whose request failed has returned its heuristic result while another
\* call is between its two tests of the strategy flag (line 285 and line 144)
C17_Witness ==
    /\ pc = "concurrent"
    /\ use_deepseek
    /\ \E c, d \in 1..MaxCalls :
           /\ calls[c].pc = "done" /\ calls[c].oracle.kind = "network_error"
           /\ calls[c].result # <<>>
           /\ calls[d].pc = "request" /\ calls[d].oracle.kind = "segments"

\* what the transition-cluster step emits for the scored windows of the call
ClusterEmitted ==
    ClusterCandidates(sorted_probs, GroupedTransitions(sorted_probs), 1, threshold)

\* what the threshold-crossing scan yields for the scored windows of the call
ScanYield == ThresholdScan(sorted_probs, 1, threshold, FALSE, 0, <<>>)

\* the start of scored window w lies inside one of the intervals
StartInside(w, intervals) ==
    \E k \in 1..Len(intervals) :
        intervals[k].startTime <= w.start /\ w.start <= intervals[k].endTime

\* C18: the candidate list handed to the merger is the cluster step's list
\* whenever that list is not empty, and the threshold scan's list exactly when
\* the cluster step emitted nothing; so a window at or above the threshold
\* outside every cluster run adds no candidate.
C18_ScanOnlyWithoutClusters ==
    pc = "merge" =>
        /\ ClusterEmitted # <<>> => sponsor_segments = ClusterEmitted
        /\ ClusterEmitted = <<>> => sponsor_segments = ScanYield

\* the cluster step emitted a candidate, and a window at or above the
\* threshold that the scan would have covered starts outside every candidate
C18_Witness ==
    /\ pc = "merge"
    /\ ClusterEmitted # <<>>
    /\ \E i \in 1..Len(sorted_probs) :
           /\ sorted_probs[i].prob >= threshold
           /\ StartInside(sorted_probs[i], ScanYield)
           /\ ~StartInside(sorted_probs[i], sponsor_segments)

\* the runs of the clusters that hold a start marker
ClusterRuns ==
    LET groups == GroupedTransitions(sorted_probs)
        started == {g \in 1..Len(groups) :
                       \E j \in 1..Len(groups[g]) :
                           IsStart(sorted_probs[groups[g][j]].text)}
    IN {GroupRun(sorted_probs, groups[g], threshold) : g \in started}

\* the interval from the least start to the greatest end of a run
RunSpan(run) ==
    [startTime |-> SeqMin([j \in 1..Len(run) |-> run[j].start]),
     endTime |-> SeqMax([j \in 1..Len(run) |-> run[j].end])]

\* no window of the run starts more than 15 seconds after the end of every
\* window before it in the run: the run spans no stretch of more than 15
\* seconds that none of its windows covers (a run that fails this also has a
\* window that starts more than 15 seconds after the end of the one before it)
Unbridged(run) ==
    \A j \in 1..(Len(run) - 1) :
        run[j + 1].start - SeqMax([i \in 1..j |-> run[i].end]) <= 15

\* C19: every candidate the transition-cluster step emits spans at least 10
\* seconds and is the span of a run that does not bridge two windows at or
\* above the threshold that are more than 15 seconds apart.
C19_RunBreaksAtGap ==
    (pc = "merge" /\ ClusterEmitted # <<>>) =>
        \A k \in 1..Len(sponsor_segments) :
            /\ Duration(sponsor_segments[k]) >= 10
            /\ \E run \in ClusterRuns :
                   /\ run # <<>>
                   /\ RunSpan(run) = sponsor_segments[k]
                   /\ Unbridged(run)

\* every scored window ends no earlier than it starts and has a probability
\* between 0 and 1
WindowsWellFormed ==
    \A i \in 1..Len(sorted_probs) :
        /\ sorted_probs[i].start <= sorted_probs[i].end
        /\ 0 <= sorted_probs[i].prob /\ sorted_probs[i].prob <= One

\* C20: when the threshold-crossing scan builds the candidates, every scored
\* window at or above the threshold starts inside one of them (stated for
\* scored windows that end no earlier than they start, with probabilities
\* between 0 and 1).
C20_ScanCoversQualifying ==
    (pc = "merge" /\ ClusterEmitted = <<>> /\ WindowsWellFormed) =>
        \A i \in 1..Len(sorted_probs) :
            sorted_probs[i].prob >= threshold
                => StartInside(sorted_probs[i], sponsor_segments)

\* the cluster (index into grouped_transitions) that holds the j-th marker
ClusterOf(j) ==
    LET groups == GroupedTransitions(sorted_probs)
        tm == TransitionMarkers(sorted_probs)
    IN CHOOSE g \in 1..Len(groups) :
           \E k \in 1..Len(groups[g]) : groups[g][k] = tm[j]

\* the clusters are a partition of the markers into runs of consecutive
\* markers, and the markers are in ascending start order
ClustersPartitionMarkers ==
    LET groups == GroupedTransitions(sorted_probs)
        tm == TransitionMarkers(sorted_probs)
        flat(g) == Len(groups[g])
    IN /\ \A g \in 1..Len(groups) : groups[g] # <<>>
       /\ \A j \in 1..Len(tm) :
              Cardinality({g \in 1..Len(groups) :
                  \E k \in 1..Len(groups[g]) : groups[g][k] = tm[j]}) = 1
       /\ \A j \in 1..(Len(tm) - 1) :
              /\ sorted_probs[tm[j]].start <= sorted_probs[tm[j + 1]].start
              /\ ClusterOf(j) <= ClusterOf(j + 1)
              /\ ClusterOf(j + 1) <= ClusterOf(j) + 1

\* the gap from the end of the j-th marker to the start of the next one
MarkerGap(j) ==
    LET tm == TransitionMarkers(sorted_probs)
    IN sorted_probs[tm[j + 1]].start - sorted_probs[tm[j]].end

\* a cluster emits a candidate only if one of its markers has a start phrase
OnlyStartClustersEmit ==
    LET groups == GroupedTransitions(sorted_probs)
    IN \A g \in 1..Len(groups) :
           GroupCandidate(sorted_probs, groups[g], threshold) # <<>>
               => \E k \in 1..Len(groups[g]) :
                      IsStart(sorted_probs[groups[g][k]].text)

ExtendedAfter(k, n) ==
    ExtendSegment(SubSeq(sorted_probs, 1, n), 1, threshold,
                  merged_segments[k].startTime, merged_segments[k].endTime)

\* window w may move the start of the interval iv back: it reaches the lowered
\* threshold, starts before iv and ends in the 10 seconds before iv starts
JustBefore(w, iv) ==
    /\ w.prob * 10 >= threshold * 8
    /\ w.start < iv.startTime
    /\ w.end <= iv.startTime
    /\ iv.startTime - w.end <= 10

\* window w may move the end of the interval iv forward: it reaches the lowered
\* threshold and begins in the 10 seconds after iv ends
JustAfter(w, iv) ==
    /\ w.prob * 10 >= threshold * 8
    /\ w.start >= iv.endTime
    /\ w.start - iv.endTime <= 10

\* C22: in the boundary extension, a scored window moves the start of a merged
\* interval (to the window's start) only if it has probability >= 0.8 x
\* threshold, starts before the interval and ends within the 10 seconds before
\* the interval's start, and moves the end (to the window's end) only if it
\* has probability >= 0.8 x threshold and begins within the 10 seconds after
\* the interval's end; no other window changes a boundary.  The interval is
\* the one the loop holds when it looks at the window.
C22_ExtensionOnlyByAdjacent ==
    (pc = "filter" /\ WindowsWellFormed) =>
        \A k \in 1..Len(merged_segments) :
            /\ final_segments[k] = ExtendedAfter(k, Len(sorted_probs))
            /\ \A n \in 1..Len(sorted_probs) :
                   LET before == ExtendedAfter(k, n - 1)
                       after == ExtendedAfter(k, n)
                       w == sorted_probs[n]
                   IN /\ after.startTime # before.startTime
                          => (after.startTime = w.start /\ JustBefore(w, before))
                      /\ after.endTime # before.endTime
                          => (after.endTime = w.end /\ JustAfter(w, before))

\* the starts of the intervals never decrease along the list
AscendingStarts(segs) ==
    \A i \in 1..(Len(segs) - 1) : segs[i].startTime <= segs[i + 1].startTime

RECURSIVE CandidatesByStart(_)
\* the candidates sorted by startTime, candidates of equal start in list order
CandidatesByStart(segs) ==
    IF segs = <<>> THEN <<>>
    ELSE LET prefix == CandidatesByStart(SubSeq(segs, 1, Len(segs) - 1))
             x == segs[Len(segs)]
             k == Cardinality({i \in 1..Len(prefix) : prefix[i].startTime <= x.startTime})
         IN SubSeq(prefix, 1, k) \o <<x>> \o SubSeq(prefix, k + 1, Len(prefix))

\* C23: the candidate list handed to the proximity merge is in ascending
\* startTime order, from the transition-cluster step as from the
\* threshold-crossing scan, so the fold over it gives what the fold over the
\* sorted list gives.
C23_CandidatesAscending ==
    (pc = "merge" /\ sponsor_segments # <<>>) =>
        /\ AscendingStarts(sponsor_segments)
        /\ MergedSegments(sponsor_segments)
               = MergedSegments(CandidatesByStart(sponsor_segments))

\* the transition-cluster step emitted two candidates, one for each of two
\* clusters that hold a start phrase, the earlier cluster first
C23_Witness ==
    /\ pc = "merge"
    /\ ClusterEmitted # <<>>
    /\ Len(GroupedTransitions(sorted_probs)) >= 2
    /\ Len(sponsor_segments) = 2
    /\ sponsor_segments[1].startTime < sponsor_segments[2].startTime

\* C24: every scored window that reaches the Segment Builder has a
\* probability between 0 and 1, with the heuristic scorer and with the
\* probabilities parsed from an oracle answer, whatever number the oracle gave.
C24_ProbabilityInUnitInterval ==
    pc = "build" =>
        \A i \in 1..Len(sorted_probs) :
            0 <= sorted_probs[i].prob /\ sorted_probs[i].prob <= One

\* the loop of lines 235-247 ran to its end on the answer
ParsedToEnd ==
    \A i \in 1..Len(oracle.segments) : ~BoostRaises(oracle.segments[i])

\* C25: when an oracle answer is parsed, the probability p of an object
\* becomes min(1.0, 1.2 x p) exactly when its is_transition flag is true and
\* p > 0.5; otherwise (flag false or absent, or p <= 0.5) it is passed through
\* unchanged, a missing probability being read as 0.
C25_BoostRule ==
    (pc = "parse_done" /\ ParsedToEnd) =>
        /\ Len(segment_results) = Len(oracle.segments)
        /\ \A i \in 1..Len(oracle.segments) :
               LET seg == oracle.segments[i]
                   p == IF seg.probability = Absent THEN Num(0) ELSE seg.probability
               IN IF seg.is_transition /\ p.v > 150
                  THEN /\ segment_results[i].prob.t = "num"
                       /\ 10 * segment_results[i].prob.v = Min(10 * One, 12 * p.v)
                  ELSE segment_results[i].prob = p

\* one answer with a flagged object at exactly 0.5, passed through, and a
\* flagged object at 0.85, boosted and capped at 1
C25_Witness ==
    /\ pc = "parse_done"
    /\ ParsedToEnd
    /\ Len(oracle.segments) = 2
    /\ oracle.segments[1].is_transition /\ oracle.segments[1].probability = Num(150)
    /\ segment_results[1].prob = Num(150)
    /\ oracle.segments[2].is_transition /\ oracle.segments[2].probability = Num(255)
    /\ segment_results[2].prob = Num(One)

\* the number of slides of ws entries at multiples of step that fit in n entries
SlideCount(n, ws, step) == Cardinality({k \in 0..n : k * step + ws <= n})

\* the entries with a transition keyword whose centered range, for the window
\* size ws, holds more than 2 entries (0-based indices)
CenteredEntries(ws) ==
    LET n == Len(transcript) IN
    {i \in 0..(n - 1) :
        /\ HasTransitionKeyword(transcript[i + 1])
        /\ Min(n, i + ws \div 2 + 1) - Max(0, i - ws \div 2) > 2}

\* the returned list begins with the slides of ws entries at 0, step, 2*step,
\* ...; then comes a tail window over the last ws entries exactly when the
\* last slide does not end on the final entry; these windows cover every
\* entry; whatever follows them are the centered windows
SlidingLayout(ws, step) ==
    LET n == Len(transcript)
        slides == SlideCount(n, ws, step)
        tail == IF slides = 0 \/ (slides - 1) * step + ws # n THEN 1 ELSE 0
        first(k) == IF k <= slides THEN (k - 1) * step + 1 ELSE n - ws + 1
    IN /\ ws <= n
       /\ Len(processed_segments) = slides + tail + Cardinality(CenteredEntries(ws))
       /\ \A k \in 1..(slides + tail) :
              processed_segments[k] = MakeWindow(transcript, first(k), first(k) + ws - 1)
       /\ \A i \in 1..n :
              \E k \in 1..(slides + tail) : first(k) <= i /\ i <= first(k) + ws - 1

\* window_size and overlap after the clamp of lines 64-66
ClampedWindowSize == Min(Len(transcript), window_size)
ClampedOverlap == IF Len(transcript) < window_size THEN 0 ELSE overlap

\* C26 as stated: for a non-empty transcript, windowSize >= 1 and overlap >= 0,
\* the sliding windows start at indices 0, step, 2*step, ... with
\* step = max(1, windowSize - overlap), each holds exactly windowSize
\* consecutive entries, a tail window over the last windowSize entries is
\* appended exactly when the last slide does not end on the final entry, and
\* together they cover every entry.
C26_SlidesOfWindowSize ==
    (pc = "window_done" /\ transcript # <<>>) =>
        SlidingLayout(window_size, Max(1, window_size - overlap))

\* C26 amended: the same with windowSize and overlap as they are after the
\* clamp (windowSize = number of entries and overlap = 0 for a transcript with
\* fewer entries than windowSize).
C26_SlidesOfClampedSize ==
    (pc = "window_done" /\ transcript # <<>>) =>
        SlidingLayout(ClampedWindowSize, Max(1, ClampedWindowSize - ClampedOverlap))

\* six entries, windows of 4 with overlap 1: one slide at index 0 and a tail
\* window over the last four entries
C26_Witness ==
    /\ pc = "window_done"
    /\ Len(transcript) = 6 /\ window_size = 4 /\ overlap = 1
    /\ Len(processed_segments) >= 2
    /\ processed_segments[1] = MakeWindow(transcript, 1, 4)
    /\ processed_segments[2] = MakeWindow(transcript, 3, 6)

\* the windows the call returned after the slides and the tail window
CenteredReturned(ws, step) ==
    LET n == Len(transcript)
        slides == SlideCount(n, ws, step)
        tail == IF n > ws /\ (slides - 1) * step + ws # n THEN 1 ELSE 0
    IN SubSeq(processed_segments, slides + tail + 1, Len(processed_segments))

\* list holds, in entry order, exactly one window over the entries
\* [max(0, i - ws/2), min(n, i + ws/2 + 1)) for every entry i that has a
\* transition keyword and whose range holds more than 2 entries
CenteredLayout(list, ws) ==
    LET n == Len(transcript)
        entries == CenteredEntries(ws)
        nth(k) == CHOOSE i \in entries : Cardinality({j \in entries : j < i}) = k - 1
    IN /\ Len(list) = Cardinality(entries)
       /\ \A k \in 1..Len(list) :
              list[k] = MakeWindow(transcript, Max(0, nth(k) - ws \div 2) + 1,
                                   Min(n, nth(k) + ws \div 2 + 1))

\* C27 as stated: every entry i whose lowercase text contains a transition
\* keyword gets exactly one extra window over the indices
\* [max(0, i - windowSize/2), min(n, i + windowSize/2 + 1)) if and only if
\* that range holds more than 2 entries; other entries get none.
C27_CenteredOnWindowSize ==
    (pc = "window_done" /\ transcript # <<>>) =>
        CenteredLayout(CenteredReturned(ClampedWindowSize,
                                        Max(1, ClampedWindowSize - ClampedOverlap)),
                       window_size)

\* C27 amended: the same with windowSize as it is after the clamp (the number
\* of entries, for a transcript with fewer entries than windowSize).
C27_CenteredOnClampedSize ==
    (pc = "window_done" /\ transcript # <<>>) =>
        CenteredLayout(CenteredReturned(ClampedWindowSize,
                                        Max(1, ClampedWindowSize - ClampedOverlap)),
                       ClampedWindowSize)

\* six entries and windows of 4: the first entry has a keyword and gets the
\* window over entries 1-3, cut at the start of the transcript; the fifth has
\* none; the last has one and gets the window over entries 4-6
C27_Witness ==
    /\ pc = "window_done"
    /\ Len(transcript) = 6 /\ window_size = 4 /\ overlap = 2
    /\ HasTransitionKeyword(transcript[1])
    /\ \A i \in 2..5 : ~HasTransitionKeyword(transcript[i])
    /\ HasTransitionKeyword(transcript[6])
    /\ processed_segments = <<MakeWindow(transcript, 1, 4), MakeWindow(transcript, 3, 6),
                              MakeWindow(transcript, 1, 3), MakeWindow(transcript, 4, 6)>>

\* the list the snap of line 477 was given: the extended intervals that passed
\* the minimum-duration filter
SnapInput == DurationFiltered(final_segments)

\* the templates whose approximate range, widened by 30 seconds on both
\* sides, the interval overlaps
TemplatesOverlapping(seg) ==
    {b \in 1..Len(sponsor_blocks) :
        /\ seg.startTime <= sponsor_blocks[b].approx_end + 30
        /\ seg.endTime >= sponsor_blocks[b].approx_start - 30}

\* a window that starts in one of the three minutes from first_min has one of
\* the phrases in its lowercase text
PhraseFound(phrases, first_min) ==
    \E i \in 1..Len(processed_segments) :
        /\ processed_segments[i].start \div 60 \in first_min..(first_min + 2)
        /\ AnyIn(phrases, LowerText(processed_segments[i].text))

\* neither a start phrase nor an end phrase of the template is found in the
\* minutes searched for it
NothingFound(b) ==
    /\ ~PhraseFound(sponsor_blocks[b].start_phrases,
                    sponsor_blocks[b].approx_start \div 60 - 1)
    /\ ~PhraseFound(sponsor_blocks[b].end_phrases,
                    sponsor_blocks[b].approx_end \div 60 - 1)

\* the interval overlaps no template, or nothing is found for the first
\* template it overlaps
LeftAlone(seg) ==
    \/ TemplatesOverlapping(seg) = {}
    \/ NothingFound(SetMin(TemplatesOverlapping(seg)))

\* the snap ran in this call and the call returned its list
Snapped == pc = "done" /\ ~raised /\ final_segments # <<>>

\* C28: the known-pattern snap returns one interval per input interval, in
\* the same order, and leaves unchanged every interval that overlaps (within
\* 30 seconds) no template's approximate range and every interval for whose
\* matching template neither a start phrase nor an end phrase is found in the
\* searched minutes.
C28_SnapFrame ==
    Snapped =>
        /\ Len(result) = Len(SnapInput)
        /\ \A k \in 1..Len(SnapInput) :
               LeftAlone(SnapInput[k]) => result[k] = SnapInput[k]

\* the snap was given two intervals: it moved the one whose template has a
\* phrase in the transcript and left the other one, which overlaps no
\* template, as it was
C28_Witness ==
    /\ Snapped
    /\ Len(SnapInput) = 2
    /\ \E k \in 1..2 : TemplatesOverlapping(SnapInput[k]) = {} /\ result[k] = SnapInput[k]
    /\ \E k \in 1..2 : ~LeftAlone(SnapInput[k]) /\ result[k] # SnapInput[k]

\* C29: the boundary extension only widens: it returns one interval per
\* merged interval, with a start no later and an end no earlier than the
\* merged interval's, so every time point the merged intervals cover is
\* covered by the list handed to the minimum-duration filter.
C29_ExtensionOnlyWidens ==
    pc = "filter" =>
        /\ Len(final_segments) = Len(merged_segments)
        /\ sponsor_segments = final_segments
        /\ \A k \in 1..Len(merged_segments) :
               /\ final_segments[k].startTime <= merged_segments[k].startTime
               /\ final_segments[k].endTime >= merged_segments[k].endTime

\* the extension moved the start of one merged interval back and the end of a
\* merged interval forward
C29_Witness ==
    /\ pc = "filter"
    /\ \E k \in 1..Len(merged_segments) :
           final_segments[k].startTime < merged_segments[k].startTime
    /\ \E k \in 1..Len(merged_segments) :
           final_segments[k].endTime > merged_segments[k].endTime

\* C30: the /sponsors endpoint of the backend classifies with threshold 0.7
\* when the request has no threshold parameter, and always passes the
\* classifier a threshold between 0 and 1: a value out of range is clamped, a
\* value that cannot be parsed is replaced by the default.
C30_EndpointThreshold ==
    pc = "call" =>
        /\ request.threshold = Absent => threshold = DocumentedDefault
        /\ request.threshold = Str => threshold = DocumentedDefault
        /\ 0 <= threshold /\ threshold <= One
        /\ request.threshold.t = "num" =>
               threshold = Max(0, Min(One, request.threshold.v))

====
